---- MODULE Spec2Model ----
(***************************************************************************)
(* A model of the time-stepping kernel of the 2D convection simulator      *)
(* (src/src/sim.cpp): the two drivers Sim::runLinear and Sim::runNonLinear,*)
(* the tendency kernels, the Adams-Bashforth update, the checkpoint        *)
(* save/load and the OpenMP region of computeNonLinearDerivatives.         *)
(*                                                                         *)
(* Values.  The arrays hold doubles.  They are modelled by the residues    *)
(* 0..Modulus-1 of a prime field: +, -, * and / are the field operations,  *)
(* so every algebraic dependence of one array element on another is kept   *)
(* and two values that differ in the model differ in the program.  pi is   *)
(* the residue M_PI.  The one-sided comparisons "x < EPSILON" of the       *)
(* assertions are taken on the centred representative (Signed); the code   *)
(* applies them to wall values only, which are 0, 1 or -1 here.  Values    *)
(* below EPSILON (sin(pi) = 1.2e-16) are the residue 0.                    *)
(*                                                                         *)
(* Time.  t, dt, totalTime and the scheduler times are whole ticks; dt is  *)
(* one tick and 1e-4 is KEInterval ticks.                                  *)
(*                                                                         *)
(* Arrays are sequences: element i of a C array is A[i+1] (At).            *)
(***************************************************************************)
EXTENDS Integers, Sequences, FiniteSets, TLC

VARIABLES
  build,      \* compile-time switches: [ddc, ndebug]
  mode,       \* which driver this process runs: "linear" or "nonlinear"
  pc,         \* position of the driver
  nN, nZ,     \* grid
  nCrit,      \* argument of runLinear
  totalTime, timeBetweenSaves,
  current, t,
  tmp, omg, psi, xi,
  dTmpdt, dOmgdt, dXidt,
  tmpGrad, xiGrad,
  kePrev, keCurrent, saveNumber,
  loc,        \* the locals of the running driver
  disk,       \* the files: [ic, vars, ke]
  log,        \* history: the operations of the current loop iteration, in order
  oob,        \* history: the out-of-range accesses made so far
  hist,       \* history: the tendency blocks computed by the last two steps, and for each
              \* nonlinear step the factor f it ran with and whether checkCFL ran before it
  ref,        \* history: the uninterrupted run, stepped beside a resumed run
  par         \* the parallel region of computeNonLinearDerivatives

vars == << build, mode, pc, nN, nZ, nCrit, totalTime, timeBetweenSaves,
           current, t, tmp, omg, psi, xi, dTmpdt, dOmgdt, dXidt,
           tmpGrad, xiGrad, kePrev, keCurrent, saveNumber,
           loc, disk, log, oob, hist, ref, par >>

-----------------------------------------------------------------------------
(* Values                                                                  *)

Modulus == 7
Vals == 0 .. (Modulus - 1)

F(x) == x % Modulus

Inv(x) == IF F(x) = 0 THEN 0 ELSE CHOOSE y \in 1 .. (Modulus - 1) : F(x * y) = 1

Half == Inv(2)

Signed(x) == IF 2 * F(x) > Modulus THEN F(x) - Modulus ELSE F(x)

\* x < EPSILON for a value that is 0 or a whole number
LessThanEps(x) == Signed(x) <= 0

Mag(x) == IF Signed(x) < 0 THEN 0 - Signed(x) ELSE Signed(x)

\* the physical parameters the constructor receives
M_PI == 3
a == 1
Ra == 2
Pr == 1
RaXi == 3
tau == 2
dtv == 1      \* the value of dt (dt is one tick of time)
dt == 1

At(A, i) == A[i + 1]

Zeros(n) == [j \in 1 .. n |-> 0]

-----------------------------------------------------------------------------
(* numerical_methods.hpp                                                   *)

\* (f[i+1] - f[i-1]) / (2 dz), dz = 1/(nZ-1)
dfdz(A, i, Z) == F((At(A, i + 1) - At(A, i - 1)) * (Z - 1) * Half)

\* (f[i+1] - 2 f[i] + f[i-1]) / dz^2
dfdz2(A, i, Z) == F((At(A, i + 1) - 2 * At(A, i) + At(A, i - 1)) * (Z - 1) * (Z - 1))

\* dt ((1 + f/2) dNew - (f/2) dOld)
adamsBashforth(dNew, dOld, f, h) == F(h * ((1 + f * Half) * dNew - f * Half * dOld))

\* n pi / a
Wn(n) == F(n * M_PI * Inv(a))

\* the factor a breached CFL bound asks for
FReduced == Half

\* the largest velocity exceeds the bound
CFLBreached(P) == \E j \in 1 .. Len(P) : Mag(P[j]) >= 2

checkCFL(P) == IF CFLBreached(P) THEN FReduced ELSE 1

-----------------------------------------------------------------------------
(* ThomasAlgorithm: per mode n, the tridiagonal system with diagonal       *)
(* -(2 oodz2 + (n pi/a)^2) and off-diagonals oodz2 on the interior rows,   *)
(* Dirichlet rows at k = 0 and k = nZ-1.                                   *)

oodz2(Z) == F((Z - 1) * (Z - 1))

ThomasDiag(n, Z) == F(0 - (2 * oodz2(Z) + Wn(n) * Wn(n)))

\* forward elimination: acc[k] = <<c'_k, d'_k>> for the interior rows 1..k
RECURSIVE ThomasForward(_, _, _, _, _)
ThomasForward(rhs, n, Z, k, acc) ==
  IF k > Z - 2 THEN acc
  ELSE LET cprev == IF k = 1 THEN 0 ELSE acc[k - 1][1]
           dprev == IF k = 1 THEN 0 ELSE acc[k - 1][2]
           den   == Inv(ThomasDiag(n, Z) - oodz2(Z) * cprev)
           ck    == F(oodz2(Z) * den)
           dk    == F((rhs[k + 1] - oodz2(Z) * dprev) * den)
       IN ThomasForward(rhs, n, Z, k + 1, Append(acc, << ck, dk >>))

\* back substitution: x holds the interior rows k+1..Z-2, first to last
\* (xk \in Vals always holds: the test has xk evaluated before the recursive call)
RECURSIVE ThomasBackward(_, _, _, _)
ThomasBackward(fw, Z, k, x) ==
  IF k < 1 THEN x
  ELSE LET xnext == IF k = Z - 2 THEN 0 ELSE x[1]
           xk    == F(fw[k][2] - fw[k][1] * xnext)
       IN IF xk \in Vals THEN ThomasBackward(fw, Z, k - 1, << xk >> \o x) ELSE << >>

\* thomasAlgorithm->solve(psi + nZ n, omg + nZ n, n): the row of psi
ThomasSolve(rhs, n, Z) ==
  << 0 >> \o ThomasBackward(ThomasForward(rhs, n, Z, 1, << >>), Z, Z - 2, << >>) \o << 0 >>

-----------------------------------------------------------------------------
(* The simulator's arrays as one record, so that the same operators step   *)
(* the running simulator (Self) and the reference run (ref).               *)

Self == [ tmp |-> tmp, omg |-> omg, psi |-> psi, xi |-> xi,
          dTmpdt |-> dTmpdt, dOmgdt |-> dOmgdt, dXidt |-> dXidt,
          current |-> current ]

NZ == nN * nZ

\* the (n, k) of a field index, the slot of a tendency index
ModeOf(i) == (i % NZ) \div nZ
LevelOf(i) == i % nZ
SlotOf(di) == di \div NZ

Other(c) == (c + 1) % 2

\* for(int k=1; k<nZ-1; ++k)
InteriorK(k) == k >= 1 /\ k < nZ - 1

\* Sim::init / Sim::reinit: every array zero
ZeroSim == [ tmp |-> Zeros(NZ), omg |-> Zeros(NZ), psi |-> Zeros(NZ),
             xi |-> IF build.ddc THEN Zeros(NZ) ELSE << >>,
             dTmpdt |-> Zeros(2 * NZ), dOmgdt |-> Zeros(2 * NZ),
             dXidt |-> IF build.ddc THEN Zeros(2 * NZ) ELSE << >> ]

\* s with every array evaluated once (the value is that of s)
Whole(q) == SubSeq(q, 1, Len(q))

Strict(s) ==
  [ s EXCEPT !.tmp = Whole(@), !.omg = Whole(@), !.psi = Whole(@),
             !.dTmpdt = Whole(@), !.dOmgdt = Whole(@) ]

-----------------------------------------------------------------------------
(* Sim::computeLinearDerivatives(linearSim)                                *)

LinearTmp(s, n, i, linearSim) ==
  F(dfdz2(s.tmp, i, nZ) - Wn(n) * Wn(n) * At(s.tmp, i)
    + (IF linearSim = 1 THEN (0 - 1) * tmpGrad * Wn(n) * At(s.psi, i) ELSE 0))

LinearXi(s, n, i, linearSim) ==
  F(tau * (dfdz2(s.xi, i, nZ) - Wn(n) * Wn(n) * At(s.xi, i))
    + (IF linearSim = 1 THEN (0 - 1) * xiGrad * Wn(n) * At(s.psi, i) ELSE 0))

LinearOmg(s, n, i) ==
  F(Pr * (dfdz2(s.omg, i, nZ) - Wn(n) * Wn(n) * At(s.omg, i) + Ra * Wn(n) * At(s.tmp, i))
    + (IF build.ddc THEN (0 - RaXi) * tau * Pr * Wn(n) * At(s.xi, i) ELSE 0))

\* the tendency index di is written by the pass: slot current, n >= linearSim, k interior
LinearWrites(s, di, linearSim) ==
  /\ SlotOf(di) = s.current
  /\ ModeOf(di) >= linearSim
  /\ InteriorK(LevelOf(di))

computeLinearDerivatives(s, linearSim) ==
  [ s EXCEPT
      !.dTmpdt = [ j \in 1 .. 2 * NZ |->
                    IF LinearWrites(s, j - 1, linearSim)
                    THEN LinearTmp(s, ModeOf(j - 1), (j - 1) % NZ, linearSim)
                    ELSE s.dTmpdt[j] ],
      !.dOmgdt = [ j \in 1 .. 2 * NZ |->
                    IF LinearWrites(s, j - 1, linearSim)
                    THEN LinearOmg(s, ModeOf(j - 1), (j - 1) % NZ)
                    ELSE s.dOmgdt[j] ],
      !.dXidt  = IF build.ddc
                 THEN [ j \in 1 .. 2 * NZ |->
                         IF LinearWrites(s, j - 1, linearSim)
                         THEN LinearXi(s, ModeOf(j - 1), (j - 1) % NZ, linearSim)
                         ELSE s.dXidt[j] ]
                 ELSE s.dXidt ]

\* assert(dOmgdt[nZ*0+k] < EPSILON) for every interior k (line 257)
LinearAssertOK(s) ==
  \A k \in 0 .. nZ - 1 : InteriorK(k) => LessThanEps(At(s.dOmgdt, nZ * 0 + k))

-----------------------------------------------------------------------------
(* Sim::updateTmpAndOmg(f), Sim::updateXi(f)                               *)

\* the Adams-Bashforth increment of element i from the slots current / other
ABStep(D, c, i, f) == adamsBashforth(At(D, c * NZ + i), At(D, Other(c) * NZ + i), f, dtv)

\* the boundary assertions after mode n has been updated (lines 211-218)
BoundaryAssertOK(T, O, n) ==
  /\ IF n > 0 THEN LessThanEps(At(T, n * nZ)) ELSE LessThanEps(At(T, n * nZ) - 1)
  /\ LessThanEps(At(T, n * nZ + nZ - 1))
  /\ LessThanEps(At(O, n * nZ))
  /\ LessThanEps(At(O, n * nZ + nZ - 1))

\* the loop over n run for the modes 0 .. upto
UpdatePrefix(s, f, upto) ==
  [ s EXCEPT
      !.tmp = [ j \in 1 .. NZ |-> IF ModeOf(j - 1) <= upto
                                  THEN F(s.tmp[j] + ABStep(s.dTmpdt, s.current, j - 1, f))
                                  ELSE s.tmp[j] ],
      !.omg = [ j \in 1 .. NZ |-> IF ModeOf(j - 1) <= upto
                                  THEN F(s.omg[j] + ABStep(s.dOmgdt, s.current, j - 1, f))
                                  ELSE s.omg[j] ] ]

updateTmpAndOmg(s, f) == UpdatePrefix(s, f, nN - 1)

\* the modes whose boundary assertions fail after the update
UpdateFailing(s, f) ==
  LET u == updateTmpAndOmg(s, f)
  IN { n \in 0 .. nN - 1 : ~ BoundaryAssertOK(u.tmp, u.omg, n) }

Min(S) == CHOOSE x \in S : \A y \in S : x <= y

updateXi(s, f) ==
  [ s EXCEPT !.xi = [ j \in 1 .. NZ |-> F(s.xi[j] + ABStep(s.dXidt, s.current, j - 1, f)) ] ]

-----------------------------------------------------------------------------
(* Sim::solveForPsi                                                        *)

Row(A, n) == SubSeq(A, n * nZ + 1, n * nZ + nZ)

\* for(int n=0; n<nN; ++n) thomasAlgorithm->solve(psi+nZ*n, omg+nZ*n, n)
RECURSIVE SolveRows(_, _)
SolveRows(O, n) ==
  IF n >= nN THEN << >> ELSE ThomasSolve(Row(O, n), n, nZ) \o SolveRows(O, n + 1)

solveForPsi(s) == [ s EXCEPT !.psi = SolveRows(s.omg, 0) ]

\* assert(psi[nZ*n+0] == 0.0), assert(psi[nZ*n+nZ-1] == 0.0), assert(psi[nZ*0+k] < EPSILON)
SolveAssertOK(s) ==
  /\ \A n \in 0 .. nN - 1 : At(s.psi, nZ * n) = 0 /\ At(s.psi, nZ * n + nZ - 1) = 0
  /\ \A k \in 0 .. nZ - 1 : LessThanEps(At(s.psi, nZ * 0 + k))

\* ++current %= 2
\* the rotation left out
Rotate_m(c) == c

\* ++current%=2 (lines 442, 567)
Rotate(c) == (c + 1) % 2

-----------------------------------------------------------------------------
(* Sim::computeNonLinearDerivatives: the terms                             *)

\* pi / (2 a)
PiOver2a == F(M_PI * Inv(2 * a))

RECURSIVE SumSeq(_)
SumSeq(q) == IF q = << >> THEN 0 ELSE F(q[1] + SumSeq(Tail(q)))

\* lines 267-271: the contribution of mode n to dTmpdt of the mean mode, level k
MeanTo(s, n, k) ==
  F((0 - PiOver2a) * n * ( dfdz(s.psi, n * nZ + k, nZ) * At(s.tmp, n * nZ + k)
                         + dfdz(s.tmp, n * nZ + k, nZ) * At(s.psi, n * nZ + k) ))

\* lines 279-280: the contribution of the mean mode to dTmpdt of mode n
FromMean(s, n, k) ==
  F((0 - n) * M_PI * Inv(a) * At(s.psi, n * nZ + k) * dfdz(s.tmp, 0 * nZ + k, nZ))

\* the three loops over m of one mode n: start, condition and o
TriadStart(c, n) == IF c = 2 THEN n + 1 ELSE 1

\* the first loop run one pass too far
TriadCond_m(c, m, n) ==
  CASE c = 1 -> m <= n
    [] c = 2 -> m < nN
    [] c = 3 -> m + n < nN

TriadCond(c, m, n) ==
  CASE c = 1 -> m < n
    [] c = 2 -> m < nN
    [] c = 3 -> m + n < nN

TriadO(c, m, n) ==
  CASE c = 1 -> n - m
    [] c = 2 -> m - n
    [] c = 3 -> n + m

\* assert(o>0 and o<nN); assert(m>0 and m<nN)
TriadAssertOK(m, o) == o > 0 /\ o < nN /\ m > 0 /\ m < nN

\* the values of m loop c of mode n visits, in order, from m on
RECURSIVE TriadLoop(_, _, _)
TriadLoop(c, n, m) ==
  IF TriadCond(c, m, n) THEN << m >> \o TriadLoop(c, n, m + 1) ELSE << >>

\* the assertions of lines 287-288, 307-308, 327-328, over every pass of every loop
TriadAssertsOK ==
  \A n \in 1 .. nN - 1 : \A c \in 1 .. 3 :
    LET ms == TriadLoop(c, n, TriadStart(c, n))
    IN \A x \in 1 .. Len(ms) : TriadAssertOK(ms[x], TriadO(c, ms[x], n))

\* the bracket  (+/-) m dpsi_o/dz A_m + o dA_m/dz psi_o  of a triad
TriadBracket(s, A, c, m, o, k) ==
  F( (IF c = 1 THEN 0 - m ELSE m) * dfdz(s.psi, nZ * o + k, nZ) * At(A, nZ * m + k)
     + o * dfdz(A, nZ * m + k, nZ) * At(s.psi, nZ * o + k) )

\* what one pass of the body of loop c adds to dTmpdt[n,k] and to dOmgdt[n,k]
TriadTmp(s, c, n, m, k) ==
  F((0 - PiOver2a) * TriadBracket(s, s.tmp, c, m, TriadO(c, m, n), k))

TriadOmg(s, c, n, m, k) ==
  F((IF c = 3 THEN PiOver2a ELSE 0 - PiOver2a)
    * TriadBracket(s, s.omg, c, m, TriadO(c, m, n), k))

\* The element of slot current that each accumulation writes:
\* current*nZ*nN + 0*nN + k (line 267), current*nZ*nN + in (line 279),
\* current*nZ*nN + nZ*n + k (lines 292-337).

\* the mean-mode accumulation one level too low
MeanTarget_m(n, k) == 0 * nN + k - 1

\* line 267
MeanTarget(n, k) == 0 * nN + k

ModeTarget(n, k) == n * nZ + k

\* the triad accumulation indexed by m instead of n
TriadTarget_m(c, n, m, k) == nZ * m + k

TriadTarget(c, n, m, k) == nZ * n + k

\* everything the kernel adds to element e of slot current of dTmpdt
NonLinearTmpAt(s, e) ==
  SumSeq([ n \in 1 .. nN - 1 |-> SumSeq([ k \in 1 .. nZ - 2 |->
    F( (IF MeanTarget(n, k) = e THEN MeanTo(s, n, k) ELSE 0)
     + (IF ModeTarget(n, k) = e THEN FromMean(s, n, k) ELSE 0)
     + SumSeq([ c \in 1 .. 3 |->
         LET ms == TriadLoop(c, n, TriadStart(c, n))
         IN SumSeq([ x \in 1 .. Len(ms) |->
              IF TriadTarget(c, n, ms[x], k) = e THEN TriadTmp(s, c, n, ms[x], k) ELSE 0 ]) ]) ) ]) ])

\* everything the kernel adds to element e of slot current of dOmgdt
NonLinearOmgAt(s, e) ==
  SumSeq([ n \in 1 .. nN - 1 |-> SumSeq([ k \in 1 .. nZ - 2 |->
    SumSeq([ c \in 1 .. 3 |->
      LET ms == TriadLoop(c, n, TriadStart(c, n))
      IN SumSeq([ x \in 1 .. Len(ms) |->
           IF TriadTarget(c, n, ms[x], k) = e THEN TriadOmg(s, c, n, ms[x], k) ELSE 0 ]) ]) ]) ])

\* the whole kernel
computeNonLinearDerivatives(s) ==
  [ s EXCEPT
      !.dTmpdt = [ j \in 1 .. 2 * NZ |->
         IF SlotOf(j - 1) = s.current
         THEN F(s.dTmpdt[j] + NonLinearTmpAt(s, (j - 1) % NZ))
         ELSE s.dTmpdt[j] ],
      !.dOmgdt = [ j \in 1 .. 2 * NZ |->
         IF SlotOf(j - 1) = s.current
         THEN F(s.dOmgdt[j] + NonLinearOmgAt(s, (j - 1) % NZ))
         ELSE s.dOmgdt[j] ] ]

-----------------------------------------------------------------------------
(* Sim::save, Sim::load, the kinetic energy                                *)

Block(D, c) == SubSeq(D, c * NZ + 1, c * NZ + NZ)

\* two blocks put at the slots c and (c+1)%2 of a tendency array
PutBlocks(c, first, second) == IF c = 0 THEN first \o second ELSE second \o first

\* the seven blocks of vars<n>.dat, as written
save(s) ==
  [ tmp |-> s.tmp, omg |-> s.omg, psi |-> s.psi,
    dTmpdtA |-> Block(s.dTmpdt, s.current), dTmpdtB |-> Block(s.dTmpdt, Other(s.current)),
    dOmgdtA |-> Block(s.dOmgdt, s.current), dOmgdtB |-> Block(s.dOmgdt, Other(s.current)) ]

\* the seven blocks read back; current is the member as it is when load runs
load(s, file) ==
  [ s EXCEPT !.tmp = file.tmp, !.omg = file.omg, !.psi = file.psi,
             !.dTmpdt = PutBlocks(s.current, file.dTmpdtA, file.dTmpdtB),
             !.dOmgdt = PutBlocks(s.current, file.dOmgdtA, file.dOmgdtB) ]

calcKineticEnergyForMode(s, n) ==
  LET ends == F( Wn(n) * At(s.psi, n * nZ + 0) * Wn(n) * At(s.psi, n * nZ + 0) * Half
               + Wn(n) * At(s.psi, n * nZ + (nZ - 1)) * Wn(n) * At(s.psi, n * nZ + (nZ - 1)) * Half )
      mid  == SumSeq([ k \in 1 .. nZ - 2 |->
                 F( dfdz(s.psi, nZ * n + k, nZ) * dfdz(s.psi, nZ * n + k, nZ)
                  + Wn(n) * At(s.psi, nZ * n + k) * Wn(n) * At(s.psi, nZ * n + k) ) ])
  IN F((ends + mid) * a * Inv(4 * (nZ - 1)))

calcKineticEnergy(s) == SumSeq([ x \in 1 .. nN |-> calcKineticEnergyForMode(s, x - 1) ])

-----------------------------------------------------------------------------
(* Construction                                                            *)

\* bounds of the model
MaxSmallN == 2      \* modes of the small grids
MaxSteps == 2       \* integrator steps of a short run
MaxICs == 3         \* initial-condition files tried

\* literals of Sim::runLinear
Mid == 32           \* the probe level: tmp[32+n*nZ]
CheckEvery == 500   \* if(steps%500 == 0)
RefreshEnd == 11    \* for(int n=1; n<11; ++n)

\* literals of Sim::runNonLinear, in ticks and steps
KEInterval == 2     \* KEsaveTime += 1e-4
CFLSteps == 10000   \* CFLCheckTime += 1e4*dt

\* the smallest grid on which every probe access of runLinear is in range and
\* the probe level is an interior level, with one mode beyond the refresh loop
ProbeN == RefreshEnd + 1
ProbeZ == Mid + 2

\* an indeterminate value: what an out-of-range load returns, and what a local
\* holds after an out-of-range store into the frame of runLinear
Junk == 0 - 1

Builds == [ ddc : BOOLEAN, ndebug : BOOLEAN ]

LinearRuns ==
  { [ nN |-> n, nZ |-> 3, nCrit |-> c, totalTime |-> T ] :
      n \in 1 .. MaxSmallN, c \in 0 .. MaxSmallN - 1, T \in 1 .. MaxSteps }
  \cup { [ nN |-> ProbeN, nZ |-> ProbeZ, nCrit |-> c, totalTime |-> MaxSteps ] :
      c \in { 1, RefreshEnd } }

NoLocals == [ steps |-> 0, tmpPrev |-> << >>, omgPrev |-> << >>, psiPrev |-> << >>,
              xiPrev |-> << >>, saveTime |-> 0, KEsaveTime |-> 0, CFLCheckTime |-> 0,
              f |-> 1, checked |-> FALSE, cfl |-> FALSE, ret |-> "none" ]

NoHist == [ n |-> 0, last |-> << >>, prev |-> << >>, f |-> << >> ]

NoPar == [ on |-> FALSE ]

\* the state a constructed Sim and its files are in before a driver is called
Constructed(b, m, N, Z, c) ==
  /\ build = b /\ mode = m /\ pc = "entry"
  /\ nN = N /\ nZ = Z
  /\ current = c /\ t = 0
  /\ tmp = Zeros(N * Z) /\ omg = Zeros(N * Z) /\ psi = Zeros(N * Z)
  /\ xi = IF b.ddc THEN Zeros(N * Z) ELSE << >>
  /\ dTmpdt = Zeros(2 * N * Z) /\ dOmgdt = Zeros(2 * N * Z)
  /\ dXidt = IF b.ddc THEN Zeros(2 * N * Z) ELSE << >>
  /\ tmpGrad = 0 /\ xiGrad = 0
  /\ kePrev = 0 /\ keCurrent = 0 /\ saveNumber = 0
  /\ loc = NoLocals
  /\ log = << >> /\ oob = {} /\ hist = NoHist
  /\ ref = [ on |-> FALSE ]
  /\ par = NoPar

InitLinear ==
  \E b \in Builds, r \in LinearRuns, c \in 0 .. 1 :
    /\ r.nCrit < r.nN
    /\ Constructed(b, "linear", r.nN, r.nZ, c)
    /\ nCrit = r.nCrit /\ totalTime = r.totalTime /\ timeBetweenSaves = 1
    /\ disk = [ ic |-> << >>, vars |-> << >>, ke |-> 0 ]

cfgVars == << build, mode, nN, nZ, nCrit, totalTime, timeBetweenSaves >>
fieldVars == << tmp, omg, psi, xi >>
tendVars == << dTmpdt, dOmgdt, dXidt >>
keVars == << kePrev, keCurrent, saveNumber, disk >>

-----------------------------------------------------------------------------
(* Sim::runLinear                                                          *)

\* sin(M_PI*k*dz): zero on the walls
SinSeed(k) == F(k * (nZ - 1 - k))

\* lines 454-467
SeedTmpGrad == IF build.ddc THEN 1 ELSE 0 - 1
SeedXiGrad == IF build.ddc THEN 1 ELSE xiGrad

\* 1-k*dz or k*dz
MeanProfile(g, k) == IF g = 0 - 1 THEN F(1 - k * Inv(nZ - 1)) ELSE F(k * Inv(nZ - 1))

\* lines 468-487
SeedField(g) ==
  [ j \in 1 .. NZ |-> IF ModeOf(j - 1) = 0 THEN MeanProfile(g, LevelOf(j - 1))
                      ELSE SinSeed(LevelOf(j - 1)) ]

\* lines 489-498
SeedAssertOK(T) == \A n \in 0 .. nN - 1 : BoundaryAssertOK(T, omg, n)

ProbeIndex(n) == Mid + n * nZ

InRange(i, len) == i >= 0 /\ i < len

\* what a load of A[i] returns
Load(A, i) == IF InRange(i, Len(A)) THEN At(A, i) ELSE Junk

\* lines 507-514: tmpPrev[n] = tmp[32+n*nZ] for every n < nN
Snapshot(A) == [ x \in 1 .. nN |-> Load(A, ProbeIndex(x - 1)) ]

\* the out-of-range accesses of lines 507-514
SeedOob == { << "tmp", ProbeIndex(n) >> : n \in { x \in 0 .. nN - 1 : ~ InRange(ProbeIndex(x), NZ) } }

\* the out-of-range accesses of the check, lines 527-557
CheckOob ==
  { << "tmp", ProbeIndex(n) >> : n \in { x \in 1 .. RefreshEnd - 1 : ~ InRange(ProbeIndex(x), NZ) } }
  \cup { << "tmp", ProbeIndex(n) >> : n \in { x \in { nCrit } : ~ InRange(ProbeIndex(x), NZ) } }
  \cup { << "tmpPrev", n >> : n \in { x \in 1 .. RefreshEnd - 1 : ~ InRange(x, nN) } }

\* lines 550-557: the snapshots after the refresh loop, every store in range
Refreshed(P, A) ==
  [ x \in 1 .. nN |-> IF x - 1 >= 1 /\ x - 1 < RefreshEnd THEN Load(A, ProbeIndex(x - 1)) ELSE P[x] ]

JunkSeq(n) == [ x \in 1 .. n |-> Junk ]

\* lines 454-498 with a failing assertion: the process aborts
runLinear_SeedAbort ==
  /\ pc = "entry" /\ mode = "linear"
  /\ ~ build.ndebug /\ ~ SeedAssertOK(SeedField(SeedTmpGrad))
  /\ tmpGrad' = SeedTmpGrad /\ xiGrad' = SeedXiGrad
  /\ tmp' = SeedField(SeedTmpGrad)
  /\ xi' = IF build.ddc THEN SeedField(SeedXiGrad) ELSE xi
  /\ pc' = "aborted"
  /\ UNCHANGED << cfgVars, current, t, omg, psi, tendVars, keVars, loc, log, oob, hist, ref, par >>

\* lines 454-524
runLinear_Seed ==
  /\ pc = "entry" /\ mode = "linear"
  /\ build.ndebug \/ SeedAssertOK(SeedField(SeedTmpGrad))
  /\ tmpGrad' = SeedTmpGrad /\ xiGrad' = SeedXiGrad
  /\ tmp' = SeedField(SeedTmpGrad)
  /\ xi' = IF build.ddc THEN SeedField(SeedXiGrad) ELSE xi
  /\ loc' = [ loc EXCEPT !.tmpPrev = Snapshot(tmp'),
                         !.xiPrev = IF build.ddc THEN Snapshot(xi') ELSE << >>,
                         !.psiPrev = Snapshot(psi),
                         !.omgPrev = Snapshot(omg),
                         !.steps = 0 ]
  /\ oob' = oob \cup SeedOob
  /\ current' = 0 /\ t' = 0
  /\ pc' = "head"
  /\ log' = << >>
  /\ UNCHANGED << cfgVars, omg, psi, tendVars, keVars, hist, ref, par >>

\* an out-of-range load that faults
runLinear_SeedFault ==
  /\ pc = "entry" /\ mode = "linear"
  /\ build.ndebug \/ SeedAssertOK(SeedField(SeedTmpGrad))
  /\ SeedOob # {}
  /\ tmpGrad' = SeedTmpGrad /\ xiGrad' = SeedXiGrad
  /\ tmp' = SeedField(SeedTmpGrad)
  /\ xi' = IF build.ddc THEN SeedField(SeedXiGrad) ELSE xi
  /\ oob' = oob \cup SeedOob
  /\ pc' = "fault"
  /\ UNCHANGED << cfgVars, current, t, omg, psi, tendVars, keVars, loc, log, hist, ref, par >>

\* while (t<totalTime) is false: return 0
runLinear_Exit ==
  /\ pc = "head" /\ mode = "linear"
  /\ ~ (t < totalTime)
  /\ pc' = "returned"
  /\ loc' = [ loc EXCEPT !.ret = "zero" ]
  /\ UNCHANGED << cfgVars, current, t, fieldVars, tendVars, tmpGrad, xiGrad, keVars,
                  log, oob, hist, ref, par >>

\* steps%500 == 0, also when steps is indeterminate
CheckDue == loc.steps = Junk \/ loc.steps % CheckEvery = 0
CheckNotDue == loc.steps = Junk \/ loc.steps % CheckEvery # 0

Incr(x) == IF x = Junk THEN Junk ELSE x + 1

\* lines 526-543: the four estimates are within tolerance of the last ones: return logTmp.
\* The comparison of the logarithms is an input of the model.
runLinear_Converged ==
  /\ pc = "head" /\ mode = "linear"
  /\ t < totalTime
  /\ CheckDue
  /\ pc' = "returned"
  /\ loc' = [ loc EXCEPT !.ret = "logTmp" ]
  /\ oob' = oob \cup { << "tmp", ProbeIndex(n) >> : n \in { x \in { nCrit } : ~ InRange(ProbeIndex(x), NZ) } }
  /\ UNCHANGED << cfgVars, current, t, fieldVars, tendVars, tmpGrad, xiGrad, keVars,
                  log, hist, ref, par >>

\* lines 526-559, not converged, every access in range
runLinear_Check ==
  /\ pc = "head" /\ mode = "linear"
  /\ t < totalTime
  /\ CheckDue
  /\ CheckOob = {}
  /\ loc' = [ loc EXCEPT !.tmpPrev = Refreshed(@, tmp),
                         !.xiPrev = IF build.ddc THEN Refreshed(@, xi) ELSE @,
                         !.psiPrev = Refreshed(@, psi),
                         !.omgPrev = Refreshed(@, omg),
                         !.checked = TRUE,
                         !.steps = Incr(@) ]
  /\ pc' = "lin"
  /\ log' = << >>
  /\ UNCHANGED << cfgVars, current, t, fieldVars, tendVars, tmpGrad, xiGrad, keVars,
                  oob, hist, ref, par >>

\* lines 526-559, not converged, with out-of-range loads and stores that do not
\* fault: the stores land in the frame of runLinear, whose locals are then indeterminate
runLinear_CheckWild ==
  /\ pc = "head" /\ mode = "linear"
  /\ t < totalTime
  /\ CheckDue
  /\ CheckOob # {}
  /\ loc' = [ loc EXCEPT !.tmpPrev = JunkSeq(nN),
                         !.xiPrev = IF build.ddc THEN JunkSeq(nN) ELSE @,
                         !.psiPrev = JunkSeq(nN),
                         !.omgPrev = JunkSeq(nN),
                         !.checked = TRUE,
                         !.steps = IF \E w \in CheckOob : w[1] = "tmpPrev" THEN Junk ELSE Incr(@) ]
  /\ oob' = oob \cup CheckOob
  /\ pc' = "lin"
  /\ log' = << >>
  /\ UNCHANGED << cfgVars, current, t, fieldVars, tendVars, tmpGrad, xiGrad, keVars,
                  hist, ref, par >>

\* an out-of-range load or store of the check that faults
runLinear_CheckFault ==
  /\ pc = "head" /\ mode = "linear"
  /\ t < totalTime
  /\ CheckDue
  /\ CheckOob # {}
  /\ oob' = oob \cup CheckOob
  /\ pc' = "fault"
  /\ UNCHANGED << cfgVars, current, t, fieldVars, tendVars, tmpGrad, xiGrad, keVars,
                  loc, log, hist, ref, par >>

\* lines 526, 559: no check is due
runLinear_NoCheck ==
  /\ pc = "head" /\ mode = "linear"
  /\ t < totalTime
  /\ CheckNotDue
  /\ loc' = [ loc EXCEPT !.steps = Incr(@), !.checked = FALSE ]
  /\ pc' = "lin"
  /\ log' = << >>
  /\ UNCHANGED << cfgVars, current, t, fieldVars, tendVars, tmpGrad, xiGrad, keVars,
                  oob, hist, ref, par >>

-----------------------------------------------------------------------------
(* One integrator step: what the calls of a driver's loop body do          *)

\* the tendency blocks of slot c, as Adams-Bashforth will consume them
Computed(s) == << Block(s.dTmpdt, s.current), Block(s.dOmgdt, s.current) >>

Recorded(h, s) ==
  [ h EXCEPT !.n = IF h.n < 2 THEN h.n + 1 ELSE 2, !.last = Computed(s), !.prev = h.last ]

AssertsHold(ok) == build.ndebug \/ ok

\* updateTmpAndOmg(f) up to its first failing assertion
Updated(s, f) ==
  IF AssertsHold(UpdateFailing(s, f) = {}) THEN updateTmpAndOmg(s, f)
  ELSE UpdatePrefix(s, f, Min(UpdateFailing(s, f)))

\* f left as it is after the update
FAfterStep_m(f) == f

\* f=1.0f after the update (line 439)
FAfterStep(f) == 1

\* line 560 (the result of a call is bound as a value: it is evaluated once)
runLinear_Compute ==
  /\ pc = "lin" /\ mode = "linear"
  /\ \E r \in { Strict(computeLinearDerivatives(Self, 1)) } :
        /\ dTmpdt' = r.dTmpdt /\ dOmgdt' = r.dOmgdt /\ dXidt' = r.dXidt
        /\ hist' = Recorded(hist, r)
        /\ pc' = IF AssertsHold(LinearAssertOK(r)) THEN "upd" ELSE "aborted"
  /\ log' = Append(log, "computeLinearDerivatives")
  /\ UNCHANGED << cfgVars, current, t, fieldVars, tmpGrad, xiGrad, keVars, loc, oob, ref, par >>

\* line 561
runLinear_Update ==
  /\ pc = "upd" /\ mode = "linear"
  /\ \E r \in { Strict(Updated(Self, 1)) }, bad \in { UpdateFailing(Self, 1) } :
        /\ tmp' = r.tmp /\ omg' = r.omg
        /\ pc' = IF ~ AssertsHold(bad = {}) THEN "aborted"
                 ELSE IF build.ddc THEN "updxi" ELSE "solve"
  /\ log' = Append(log, "updateTmpAndOmg")
  /\ UNCHANGED << cfgVars, current, t, psi, xi, tendVars, tmpGrad, xiGrad, keVars, loc,
                  oob, hist, ref, par >>

\* line 563
runLinear_UpdateXi ==
  /\ pc = "updxi" /\ mode = "linear"
  /\ xi' = updateXi(Self, 1).xi
  /\ pc' = "solve"
  /\ log' = Append(log, "updateXi")
  /\ UNCHANGED << cfgVars, current, t, tmp, omg, psi, tendVars, tmpGrad, xiGrad, keVars, loc,
                  oob, hist, ref, par >>

\* lines 565-567
runLinear_Solve ==
  /\ pc = "solve" /\ mode = "linear"
  /\ \E r \in { Strict(solveForPsi(Self)) } :
        /\ psi' = r.psi
        /\ IF AssertsHold(SolveAssertOK(r))
           THEN t' = t + dt /\ current' = Rotate(current) /\ pc' = "head"
           ELSE t' = t /\ current' = current /\ pc' = "aborted"
  /\ log' = Append(log, "solveForPsi")
  /\ UNCHANGED << cfgVars, tmp, omg, xi, tendVars, tmpGrad, xiGrad, keVars, loc,
                  oob, hist, ref, par >>

NextLinear ==
  \/ runLinear_SeedAbort
  \/ runLinear_Seed
  \/ runLinear_SeedFault
  \/ runLinear_Exit
  \/ runLinear_Converged
  \/ runLinear_Check
  \/ runLinear_CheckWild
  \/ runLinear_CheckFault
  \/ runLinear_NoCheck
  \/ runLinear_Compute
  \/ runLinear_Update
  \/ runLinear_UpdateXi
  \/ runLinear_Solve

SpecLinear == InitLinear /\ [][NextLinear]_vars

-----------------------------------------------------------------------------
(* Sim::runNonLinear                                                       *)

\* an initial-condition file: a checkpoint of fields that satisfy the boundary
\* conditions (tendency blocks included); i selects amplitudes and the gradient
ICField(amp) ==
  [ j \in 1 .. NZ |-> IF ModeOf(j - 1) = 0 THEN 0 ELSE F(amp * ModeOf(j - 1) * SinSeed(LevelOf(j - 1))) ]

ICTmp(i) ==
  [ j \in 1 .. NZ |-> IF ModeOf(j - 1) = 0
                      THEN MeanProfile(IF i % 3 = 0 THEN 1 ELSE 0 - 1, LevelOf(j - 1))
                      ELSE F(i * SinSeed(LevelOf(j - 1))) ]

ICFile(i) ==
  [ tmp |-> ICTmp(i), omg |-> ICField(i - 1), psi |-> SolveRows(ICField(i - 1), 0),
    dTmpdtA |-> ICField(i - 1), dTmpdtB |-> ICField(2 * (i - 1)),
    dOmgdtA |-> ICField(3 * (i - 1)), dOmgdtB |-> ICField(i - 1) ]

NoFile == << >>

NonLinearRuns ==
  { [ nN |-> n, nZ |-> z, totalTime |-> T, timeBetweenSaves |-> b ] :
      n \in 1 .. MaxSmallN + 1, z \in 3 .. 4, T \in 1 .. MaxSteps, b \in 1 .. 2 }

InitNonLinear ==
  \E b \in Builds, r \in NonLinearRuns, c \in 0 .. 1, i \in 0 .. MaxICs :
    /\ Constructed(b, "nonlinear", r.nN, r.nZ, c)
    /\ nCrit = 0 /\ totalTime = r.totalTime /\ timeBetweenSaves = r.timeBetweenSaves
    /\ disk = [ ic |-> IF i = 0 THEN NoFile ELSE ICFile(i), vars |-> << >>, ke |-> 0 ]

\* the reference run makes the same call on its own arrays
RefStep(r, Op(_)) == IF r.on THEN [ r EXCEPT !.s = Op(@) ] ELSE r

\* lines 425-430 in the reference run, by its own clock
RefCFL(r) ==
  IF r.on /\ r.CFLCheckTime - r.t <= 0
  THEN [ r EXCEPT !.f = checkCFL(r.s.psi), !.CFLCheckTime = @ + CFLSteps * dt ]
  ELSE r

\* line 413, the file cannot be opened: exit(-1)
runNonLinear_LoadFail ==
  /\ pc = "entry" /\ mode = "nonlinear"
  /\ disk.ic = NoFile
  /\ pc' = "exited"
  /\ UNCHANGED << cfgVars, current, t, fieldVars, tendVars, tmpGrad, xiGrad, keVars,
                  loc, log, oob, hist, ref, par >>

\* lines 413-419
runNonLinear_Load ==
  /\ pc = "entry" /\ mode = "nonlinear"
  /\ disk.ic # NoFile
  /\ LET r == load(Self, disk.ic)
     IN /\ tmp' = r.tmp /\ omg' = r.omg /\ psi' = r.psi
        /\ dTmpdt' = r.dTmpdt /\ dOmgdt' = r.dOmgdt
  /\ current' = 0
  /\ t' = 0
  /\ loc' = [ loc EXCEPT !.saveTime = 0, !.KEsaveTime = 0, !.CFLCheckTime = 0, !.f = 1 ]
  /\ pc' = "head"
  /\ log' = << >>
  /\ UNCHANGED << cfgVars, xi, dXidt, tmpGrad, xiGrad, keVars, oob, hist, ref, par >>

\* lines 420, 444-445: the loop ends, the final checkpoint is written
runNonLinear_Exit ==
  /\ pc = "head" /\ mode = "nonlinear"
  /\ ~ (totalTime - t > 0)
  /\ disk' = [ disk EXCEPT !.vars = save(Self) ]
  /\ saveNumber' = saveNumber + 1
  /\ pc' = "done"
  /\ UNCHANGED << cfgVars, current, t, fieldVars, tendVars, tmpGrad, xiGrad, kePrev, keCurrent,
                  loc, log, oob, hist, ref, par >>

\* lines 421-424, Sim::saveKineticEnergy
runNonLinear_SaveKE ==
  /\ pc = "head" /\ mode = "nonlinear"
  /\ totalTime - t > 0
  /\ loc.KEsaveTime - t <= 0
  /\ kePrev' = keCurrent
  /\ keCurrent' = calcKineticEnergy(Self)
  /\ disk' = [ disk EXCEPT !.ke = @ + 1 ]
  /\ loc' = [ loc EXCEPT !.KEsaveTime = @ + KEInterval, !.cfl = FALSE ]
  /\ pc' = "cfl"
  /\ log' = << "saveKineticEnergy" >>
  /\ UNCHANGED << cfgVars, current, t, fieldVars, tendVars, tmpGrad, xiGrad, saveNumber,
                  oob, hist, ref, par >>

runNonLinear_SkipKE ==
  /\ pc = "head" /\ mode = "nonlinear"
  /\ totalTime - t > 0
  /\ ~ (loc.KEsaveTime - t <= 0)
  /\ loc' = [ loc EXCEPT !.cfl = FALSE ]
  /\ pc' = "cfl"
  /\ log' = << >>
  /\ UNCHANGED << cfgVars, current, t, fieldVars, tendVars, tmpGrad, xiGrad, keVars,
                  oob, hist, ref, par >>

\* lines 425-430
runNonLinear_CheckCFL ==
  /\ pc = "cfl" /\ mode = "nonlinear"
  /\ loc.CFLCheckTime - t <= 0
  /\ loc' = [ loc EXCEPT !.CFLCheckTime = @ + CFLSteps * dt, !.f = checkCFL(psi), !.cfl = TRUE ]
  /\ ref' = RefCFL(ref)
  /\ pc' = "sav"
  /\ log' = Append(log, "checkCFL")
  /\ UNCHANGED << cfgVars, current, t, fieldVars, tendVars, tmpGrad, xiGrad, keVars,
                  oob, hist, par >>

runNonLinear_SkipCFL ==
  /\ pc = "cfl" /\ mode = "nonlinear"
  /\ ~ (loc.CFLCheckTime - t <= 0)
  /\ ref' = RefCFL(ref)
  /\ pc' = "sav"
  /\ UNCHANGED << cfgVars, current, t, fieldVars, tendVars, tmpGrad, xiGrad, keVars,
                  loc, log, oob, hist, par >>

\* lines 431-435
runNonLinear_Save ==
  /\ pc = "sav" /\ mode = "nonlinear"
  /\ loc.saveTime - t <= 0
  /\ loc' = [ loc EXCEPT !.saveTime = @ + timeBetweenSaves ]
  /\ disk' = [ disk EXCEPT !.vars = save(Self) ]
  /\ saveNumber' = saveNumber + 1
  /\ pc' = "lin"
  /\ log' = Append(log, "save")
  /\ UNCHANGED << cfgVars, current, t, fieldVars, tendVars, tmpGrad, xiGrad, kePrev, keCurrent,
                  oob, hist, ref, par >>

runNonLinear_SkipSave ==
  /\ pc = "sav" /\ mode = "nonlinear"
  /\ ~ (loc.saveTime - t <= 0)
  /\ pc' = "lin"
  /\ UNCHANGED << cfgVars, current, t, fieldVars, tendVars, tmpGrad, xiGrad, keVars,
                  loc, log, oob, hist, ref, par >>

LinearPass0(s) == computeLinearDerivatives(s, 0)

\* line 436
runNonLinear_Linear ==
  /\ pc = "lin" /\ mode = "nonlinear"
  /\ LET r == computeLinearDerivatives(Self, 0)
     IN /\ dTmpdt' = r.dTmpdt /\ dOmgdt' = r.dOmgdt /\ dXidt' = r.dXidt
        /\ pc' = IF AssertsHold(LinearAssertOK(r)) THEN "nonlin" ELSE "aborted"
  /\ ref' = RefStep(ref, LinearPass0)
  /\ log' = Append(log, "computeLinearDerivatives")
  /\ UNCHANGED << cfgVars, current, t, fieldVars, tmpGrad, xiGrad, keVars, loc, oob, hist, par >>

\* line 437
runNonLinear_NonLinear ==
  /\ pc = "nonlin" /\ mode = "nonlinear"
  /\ LET r == computeNonLinearDerivatives(Self)
     IN /\ dTmpdt' = r.dTmpdt /\ dOmgdt' = r.dOmgdt
        /\ hist' = Recorded(hist, r)
  /\ ref' = RefStep(ref, computeNonLinearDerivatives)
  /\ pc' = IF AssertsHold(TriadAssertsOK) THEN "upd" ELSE "aborted"
  /\ log' = Append(log, "computeNonLinearDerivatives")
  /\ UNCHANGED << cfgVars, current, t, fieldVars, dXidt, tmpGrad, xiGrad, keVars, loc, oob, par >>

\* lines 438-439
runNonLinear_Update ==
  /\ pc = "upd" /\ mode = "nonlinear"
  /\ LET r == Updated(Self, loc.f)
     IN /\ tmp' = r.tmp /\ omg' = r.omg
        /\ pc' = IF AssertsHold(UpdateFailing(Self, loc.f) = {}) THEN "solve" ELSE "aborted"
  /\ loc' = [ loc EXCEPT !.f = IF AssertsHold(UpdateFailing(Self, loc.f) = {})
                               THEN FAfterStep(@) ELSE @ ]
  /\ ref' = IF ref.on
            THEN [ ref EXCEPT !.s = updateTmpAndOmg(@, ref.f), !.f = FAfterStep(@) ]
            ELSE ref
  /\ hist' = [ hist EXCEPT !.f = Append(@, << loc.f, loc.cfl >>) ]
  /\ log' = Append(log, "updateTmpAndOmg")
  /\ UNCHANGED << cfgVars, current, t, psi, xi, tendVars, tmpGrad, xiGrad, keVars,
                  oob, par >>

\* lines 440-442
runNonLinear_Solve ==
  /\ pc = "solve" /\ mode = "nonlinear"
  /\ LET r == solveForPsi(Self)
     IN /\ psi' = r.psi
        /\ IF AssertsHold(SolveAssertOK(r))
           THEN t' = t + dt /\ current' = Rotate(current) /\ pc' = "head"
           ELSE t' = t /\ current' = current /\ pc' = "aborted"
  /\ ref' = IF ref.on
            THEN [ ref EXCEPT !.s = [ solveForPsi(@) EXCEPT !.current = Rotate(@) ],
                              !.t = @ + dt ]
            ELSE ref
  /\ log' = Append(log, "solveForPsi")
  /\ UNCHANGED << cfgVars, tmp, omg, xi, tendVars, tmpGrad, xiGrad, keVars, loc,
                  oob, hist, par >>

\* The program is run again on the checkpoint the finished run wrote last: a fresh
\* Sim, constructed with any current, whose icFile is that checkpoint.  From here
\* on ref is the finished run carried on without the interruption.
Resume ==
  /\ pc = "done" /\ mode = "nonlinear"
  /\ ~ ref.on
  /\ \E c \in 0 .. 1, T \in 1 .. MaxSteps :
       /\ current' = c
       /\ totalTime' = T
  /\ ref' = [ on |-> TRUE, s |-> Self, t |-> t, CFLCheckTime |-> loc.CFLCheckTime, f |-> loc.f ]
  /\ disk' = [ ic |-> disk.vars, vars |-> << >>, ke |-> 0 ]
  /\ tmp' = Zeros(NZ) /\ omg' = Zeros(NZ) /\ psi' = Zeros(NZ)
  /\ dTmpdt' = Zeros(2 * NZ) /\ dOmgdt' = Zeros(2 * NZ)
  /\ xi' = IF build.ddc THEN Zeros(NZ) ELSE << >>
  /\ dXidt' = IF build.ddc THEN Zeros(2 * NZ) ELSE << >>
  /\ t' = 0 /\ kePrev' = 0 /\ keCurrent' = 0 /\ saveNumber' = 0
  /\ loc' = NoLocals /\ log' = << >> /\ hist' = NoHist
  /\ pc' = "entry"
  /\ UNCHANGED << build, mode, nN, nZ, nCrit, timeBetweenSaves, tmpGrad, xiGrad, oob, par >>

NextNonLinear ==
  \/ runNonLinear_LoadFail
  \/ runNonLinear_Load
  \/ runNonLinear_Exit
  \/ runNonLinear_SaveKE
  \/ runNonLinear_SkipKE
  \/ runNonLinear_CheckCFL
  \/ runNonLinear_SkipCFL
  \/ runNonLinear_Save
  \/ runNonLinear_SkipSave
  \/ runNonLinear_Linear
  \/ runNonLinear_NonLinear
  \/ runNonLinear_Update
  \/ runNonLinear_Solve
  \/ Resume

Init == InitLinear \/ InitNonLinear

Next == NextLinear \/ NextNonLinear

Spec == Init /\ [][Next]_vars

\* runLinear on the probe grid, run past its second convergence check
InitCrit ==
  \E c \in { RefreshEnd } :
    /\ Constructed([ ddc |-> FALSE, ndebug |-> FALSE ], "linear", ProbeN, ProbeZ, 0)
    /\ nCrit = c /\ totalTime = CheckEvery + MaxSteps /\ timeBetweenSaves = 1
    /\ disk = [ ic |-> << >>, vars |-> << >>, ke |-> 0 ]

\* the actions of runLinear that a build without DDC takes on a grid that holds the probes
NextCrit ==
  \/ runLinear_Seed
  \/ runLinear_Exit
  \/ runLinear_Converged
  \/ runLinear_Check
  \/ runLinear_NoCheck
  \/ runLinear_Compute
  \/ runLinear_Update
  \/ runLinear_Solve

SpecCrit == InitCrit /\ [][NextCrit]_vars

-----------------------------------------------------------------------------
(* Sim::computeNonLinearDerivatives, statement by statement: the sequential *)
(* loop of lines 263-273, then the iterations of the omp parallel for of    *)
(* lines 274-344, handed out one by one (schedule(dynamic)) to the threads  *)
(* of the team.  A += is a load of the element followed by a store.         *)

MaxParN == 3        \* modes of the grids of the kernel
MaxParCells == 12   \* elements of a field array of the grids of the kernel
NumThreads == 2     \* threads of the team

\* lines 436-442: one step of runNonLinear, taken whole; each call is made on the
\* evaluated result of the call before it
Stepped(s) ==
  CHOOSE r \in
    { [ s4 EXCEPT !.current = Rotate(@) ] :
        s4 \in { Strict(solveForPsi(s3)) :
        s3 \in { Strict(updateTmpAndOmg(s2, checkCFL(s.psi))) :
        s2 \in { Strict(computeNonLinearDerivatives(s1)) :
        s1 \in { Strict(computeLinearDerivatives(s, 0)) } } } } } : TRUE

\* the Sim when line 437 is reached for the first time (steps = 0) or the second
KernelEntry(i, steps) ==
  CHOOSE r \in
    { Strict(computeLinearDerivatives(s1, 0)) :
        s1 \in { IF steps = 0 THEN s0 ELSE Stepped(s0) :
        s0 \in { Strict([ load([ current |-> 0 ] @@ ZeroSim, ICFile(i))
                          EXCEPT !.current = 0 ]) } } } : TRUE

InitPar ==
  \E N \in 1 .. MaxParN, Z \in 3 .. 4, i \in 2 .. MaxICs, steps \in 0 .. 1 :
    /\ N * Z <= MaxParCells
    /\ build = [ ddc |-> FALSE, ndebug |-> FALSE ] /\ mode = "nonlinear" /\ pc = "mean"
    /\ nN = N /\ nZ = Z /\ nCrit = 0 /\ totalTime = MaxSteps /\ timeBetweenSaves = 1
    /\ t = steps * dt
    /\ \E s \in { KernelEntry(i, steps) } :
          /\ current = s.current
          /\ tmp = s.tmp /\ omg = s.omg /\ psi = s.psi /\ xi = s.xi
          /\ dTmpdt = s.dTmpdt /\ dOmgdt = s.dOmgdt /\ dXidt = s.dXidt
          /\ par = [ on |-> TRUE, start |-> s, mn |-> 1, mk |-> 1, meanWr |-> {},
                     next |-> 1, run |-> << >>, fin |-> {},
                     rd |-> [ n \in 1 .. N - 1 |-> {} ], wr |-> [ n \in 1 .. N - 1 |-> {} ],
                     visited |-> {} ]
    /\ tmpGrad = 0 /\ xiGrad = 0
    /\ kePrev = 0 /\ keCurrent = 0 /\ saveNumber = 0
    /\ loc = NoLocals
    /\ log = << >> /\ oob = {} /\ hist = NoHist
    /\ ref = [ on |-> FALSE ]
    /\ disk = [ ic |-> ICFile(i), vars |-> << >>, ke |-> 0 ]

RECURSIVE Flatten(_)
Flatten(qq) == IF qq = << >> THEN << >> ELSE qq[1] \o Flatten(Tail(qq))

\* lines 284-343: one pass of a loop over m: the two assertions, then for every
\* interior k the accumulation into dTmpdt and the accumulation into dOmgdt
TriadBody(c, m) ==
  << [ kind |-> "head", c |-> c, m |-> m, k |-> 0 ] >>
  \o Flatten([ k \in 1 .. nZ - 2 |->
       << [ kind |-> "tmp", c |-> c, m |-> m, k |-> k ],
          [ kind |-> "omg", c |-> c, m |-> m, k |-> k ] >> ])

\* lines 275-344: the statements iteration n of the parallel loop executes, in order
Iteration(n) ==
  [ k \in 1 .. nZ - 2 |-> [ kind |-> "from", c |-> 0, m |-> 0, k |-> k ] ]
  \o Flatten([ c \in 1 .. 3 |->
       LET ms == TriadLoop(c, n, TriadStart(c, n))
       IN Flatten([ x \in 1 .. Len(ms) |-> TriadBody(c, ms[x]) ]) ])

\* the array and the element a statement accumulates into
StmtArray(ins) == IF ins.kind = "omg" THEN "dOmgdt" ELSE "dTmpdt"

StmtElement(n, ins) ==
  current * nZ * nN
  + (IF ins.kind = "from" THEN ModeTarget(n, ins.k) ELSE TriadTarget(ins.c, n, ins.m, ins.k))

\* what it adds
StmtTerm(n, ins) ==
  CASE ins.kind = "from" -> FromMean(Self, n, ins.k)
    [] ins.kind = "tmp" -> TriadTmp(Self, ins.c, n, ins.m, ins.k)
    [] ins.kind = "omg" -> TriadOmg(Self, ins.c, n, ins.m, ins.k)

\* the elements dfdz(A, i, dz) reads
DfdzReads(A, i) == { << A, i + 1 >>, << A, i - 1 >> }

\* the elements a statement loads
StmtReads(n, ins) ==
  { << StmtArray(ins), StmtElement(n, ins) >> }
  \cup (IF ins.kind = "from"
        THEN { << "psi", n * nZ + ins.k >> } \cup DfdzReads("tmp", 0 * nZ + ins.k)
        ELSE LET A == IF ins.kind = "tmp" THEN "tmp" ELSE "omg"
                 im == nZ * ins.m + ins.k
                 io == nZ * TriadO(ins.c, ins.m, n) + ins.k
             IN DfdzReads("psi", io) \cup { << A, im >> } \cup DfdzReads(A, im)
                \cup { << "psi", io >> })

Tendency(A) == IF A = "dOmgdt" THEN dOmgdt ELSE dTmpdt

\* lines 263-273: one pass of the body of the sequential loop
kernel_Mean ==
  /\ pc = "mean" /\ par.mn < nN
  /\ LET e == current * nZ * nN + MeanTarget(par.mn, par.mk)
     IN /\ dTmpdt' = [ dTmpdt EXCEPT ![e + 1] = F(@ + MeanTo(Self, par.mn, par.mk)) ]
        /\ par' = [ par EXCEPT !.meanWr = @ \cup { << "dTmpdt", e >> },
                               !.mk = IF par.mk + 1 < nZ - 1 THEN par.mk + 1 ELSE 1,
                               !.mn = IF par.mk + 1 < nZ - 1 THEN par.mn ELSE par.mn + 1 ]
  /\ UNCHANGED << cfgVars, pc, current, t, fieldVars, dOmgdt, dXidt, tmpGrad, xiGrad, keVars,
                  loc, log, oob, hist, ref >>

\* line 274: the sequential loop is over, the team enters the parallel loop
kernel_Fork ==
  /\ pc = "mean" /\ ~ (par.mn < nN)
  /\ pc' = "par"
  /\ UNCHANGED << cfgVars, current, t, fieldVars, tendVars, tmpGrad, xiGrad, keVars,
                  loc, log, oob, hist, ref, par >>

\* schedule(dynamic): an idle thread takes the next iteration
kernel_Take ==
  /\ pc = "par" /\ par.next < nN
  /\ Cardinality(DOMAIN par.run) < NumThreads
  /\ par' = [ par EXCEPT !.run = (par.next :> [ ip |-> 1, ph |-> "load", reg |-> 0 ]) @@ @,
                         !.next = @ + 1 ]
  /\ UNCHANGED << cfgVars, pc, current, t, fieldVars, tendVars, tmpGrad, xiGrad, keVars,
                  loc, log, oob, hist, ref >>

\* the iteration moves to its next statement, or ends
Advanced(p, n) ==
  IF p.run[n].ip < Len(Iteration(n))
  THEN [ p EXCEPT !.run[n] = [ ip |-> p.run[n].ip + 1, ph |-> "load", reg |-> 0 ] ]
  ELSE [ p EXCEPT !.run = [ x \in DOMAIN p.run \ { n } |-> p.run[x] ], !.fin = @ \cup { n } ]

\* o = ...; assert(o>0 and o<nN); assert(m>0 and m<nN)
kernel_Head ==
  \E n \in DOMAIN par.run :
    LET ins == Iteration(n)[par.run[n].ip]
        o == TriadO(ins.c, ins.m, n)
    IN /\ pc = "par" /\ ins.kind = "head"
       /\ pc' = IF AssertsHold(TriadAssertOK(ins.m, o)) THEN "par" ELSE "aborted"
       /\ par' = Advanced([ par EXCEPT !.visited = @ \cup { << n, ins.c, ins.m, o >> } ], n)
       /\ UNCHANGED << cfgVars, current, t, fieldVars, tendVars, tmpGrad, xiGrad, keVars,
                       loc, log, oob, hist, ref >>

\* the load half of a +=: the element and the operands of the term are read
kernel_Load ==
  \E n \in DOMAIN par.run :
    LET ins == Iteration(n)[par.run[n].ip]
    IN /\ pc = "par" /\ ins.kind # "head" /\ par.run[n].ph = "load"
       /\ par' = [ par EXCEPT
            !.run[n].ph = "store",
            !.run[n].reg = F(At(Tendency(StmtArray(ins)), StmtElement(n, ins)) + StmtTerm(n, ins)),
            !.rd[n] = @ \cup StmtReads(n, ins) ]
       /\ UNCHANGED << cfgVars, pc, current, t, fieldVars, tendVars, tmpGrad, xiGrad, keVars,
                       loc, log, oob, hist, ref >>

\* the store half of a +=
kernel_Store ==
  \E n \in DOMAIN par.run :
    LET ins == Iteration(n)[par.run[n].ip]
        e == StmtElement(n, ins)
    IN /\ pc = "par" /\ ins.kind # "head" /\ par.run[n].ph = "store"
       /\ IF StmtArray(ins) = "dOmgdt"
          THEN dOmgdt' = [ dOmgdt EXCEPT ![e + 1] = par.run[n].reg ] /\ dTmpdt' = dTmpdt
          ELSE dTmpdt' = [ dTmpdt EXCEPT ![e + 1] = par.run[n].reg ] /\ dOmgdt' = dOmgdt
       /\ par' = Advanced([ par EXCEPT !.wr[n] = @ \cup { << StmtArray(ins), e >> } ], n)
       /\ UNCHANGED << cfgVars, pc, current, t, fieldVars, dXidt, tmpGrad, xiGrad, keVars,
                       loc, log, oob, hist, ref >>

\* the implicit barrier at the end of the parallel loop, then the return
kernel_Join ==
  /\ pc = "par" /\ ~ (par.next < nN) /\ DOMAIN par.run = {}
  /\ pc' = "kdone"
  /\ UNCHANGED << cfgVars, current, t, fieldVars, tendVars, tmpGrad, xiGrad, keVars,
                  loc, log, oob, hist, ref, par >>

NextPar ==
  \/ kernel_Mean
  \/ kernel_Fork
  \/ kernel_Take
  \/ kernel_Head
  \/ kernel_Load
  \/ kernel_Store
  \/ kernel_Join

SpecPar == InitPar /\ [][NextPar]_vars

-----------------------------------------------------------------------------
(* Properties of the drivers                                               *)

\* the states of a run after its fields were seeded or loaded
Running == pc \notin { "entry", "exited" }

\* the wall values of the mean temperature the run started from
WallValue(k) ==
  IF mode = "linear" THEN MeanProfile(tmpGrad, k) ELSE At(disk.ic.tmp, k)

\* C1: from the seed or the load onwards, hence after every integrator step of either
\* driver, the wall rows are what they were: omg[n,0] = omg[n,Z-1] = 0 for every n,
\* tmp[n,0] = tmp[n,Z-1] = 0 for every n > 0, and tmp[0,0], tmp[0,Z-1] keep the wall
\* values of the mean profile.
WallRowsUnchanged ==
  Running =>
    /\ \A n \in 0 .. nN - 1 :
         /\ At(omg, n * nZ) = 0 /\ At(omg, n * nZ + nZ - 1) = 0
         /\ n > 0 => At(tmp, n * nZ) = 0 /\ At(tmp, n * nZ + nZ - 1) = 0
    /\ At(tmp, 0) = WallValue(0)
    /\ At(tmp, nZ - 1) = WallValue(nZ - 1)

\* two steps of the nonlinear driver are done, the mean mode was fed by the kernel
\* and the fields have moved away from the initial condition
WallRowsWitness ==
  /\ mode = "nonlinear" /\ pc = "head" /\ t = 2 * dt
  /\ tmp # disk.ic.tmp /\ omg # disk.ic.omg
  /\ \E k \in 1 .. nZ - 2 : At(tmp, k) # At(disk.ic.tmp, k)

\* C3 as the specification states it: in a DDC build the Poisson solve of every step,
\* of either driver, is immediately preceded by updateXi, itself preceded by
\* updateTmpAndOmg.
XiUpdatedEveryStep ==
  (build.ddc /\ pc = "solve") =>
    /\ Len(log) >= 2
    /\ log[Len(log)] = "updateXi"
    /\ log[Len(log) - 1] = "updateTmpAndOmg"

\* C4 as the specification states it: no operation reads or writes outside its array.
NoOutOfRangeAccess == oob = {}

\* C5 as the specification states it: the boundary assertions of the linear driver
\* hold after the seed and after every update, whatever the sign of the gradient.
LinearBoundaryAssertionsHold ==
  (mode = "linear" /\ Running) => \A n \in 0 .. nN - 1 : BoundaryAssertOK(tmp, omg, n)

\* the two tendency blocks of s in the roles Adams-Bashforth gives them: new, previous
Consumed(s) ==
  << Block(s.dTmpdt, s.current), Block(s.dOmgdt, s.current),
     Block(s.dTmpdt, Other(s.current)), Block(s.dOmgdt, Other(s.current)) >>

\* C2 as the specification states it: a run resumed from a checkpoint by a fresh Sim
\* constructed with any current has, at every point of every step, the T, omega and
\* psi of the uninterrupted run, and its update consumes the same new and previous
\* tendency blocks.
CheckpointRoundTrip ==
  (ref.on /\ pc \in { "head", "cfl", "sav", "lin", "nonlin", "upd", "solve", "done" }) =>
    /\ tmp = ref.s.tmp /\ omg = ref.s.omg /\ psi = ref.s.psi
    /\ pc = "upd" => Consumed(Self) = Consumed(ref.s)

\* C6: in the nonlinear driver a step runs with f # 1 only if checkCFL ran in the same
\* iteration before it; f is 1 again after every step; and within an iteration no
\* scheduler action (kinetic energy, CFL check, checkpoint) follows the start of the
\* tendency computation.
CFLFactorScoped ==
  mode = "nonlinear" =>
    /\ \A i \in 1 .. Len(hist.f) : hist.f[i][1] # 1 => hist.f[i][2]
    /\ pc = "upd" => (loc.f # 1 => loc.cfl)
    /\ pc \in { "solve", "head", "done" } => loc.f = 1
    /\ \A i \in 1 .. Len(log) : \A j \in 1 .. Len(log) :
         (i < j /\ log[i] = "computeLinearDerivatives")
           => log[j] \notin { "saveKineticEnergy", "checkCFL", "save" }

\* a step ran with a reduced f after a CFL check, and a later step of the same run,
\* whose iteration had no CFL check, ran with f = 1
CFLFactorWitness ==
  /\ mode = "nonlinear" /\ pc = "solve"
  /\ Len(hist.f) = 2
  /\ hist.f[1][1] # 1 /\ hist.f[1][2]
  /\ hist.f[2] = << 1, FALSE >>
  /\ "checkCFL" \notin { log[i] : i \in 1 .. Len(log) }

\* C7 as the specification states it: at a step boundary slot current holds the
\* tendencies of the step just completed and the other slot those of the step before.
CurrentSlotIsFreshest ==
  /\ current \in { 0, 1 }
  /\ (pc = "head" /\ hist.n >= 1) =>
       /\ Computed(Self) = hist.last
       /\ hist.n >= 2 => Computed([ Self EXCEPT !.current = Other(current) ]) = hist.prev

\* C7, amended: at a step boundary, that is after the rotation, slot (current+1) mod 2
\* holds the tendencies of the step just completed and slot current those of the step
\* before it, which the next step overwrites; current is always 0 or 1.
OtherSlotIsFreshest ==
  /\ current \in { 0, 1 }
  /\ (pc = "head" /\ hist.n >= 1) =>
       /\ Computed([ Self EXCEPT !.current = Other(current) ]) = hist.last
       /\ hist.n >= 2 => Computed(Self) = hist.prev

\* a boundary after two steps whose tendencies differ
OtherSlotWitness ==
  /\ pc = "head" /\ hist.n = 2 /\ hist.last # hist.prev
  /\ t = 2 * dt

\* C10 as the specification states it: after a convergence check that does not return
\* and makes no out-of-range access, the snapshots of the critical mode are the
\* current probe values.
SnapshotsRefreshed ==
  (mode = "linear" /\ pc = "lin" /\ loc.checked /\ oob = {}) =>
    /\ loc.tmpPrev[nCrit + 1] = At(tmp, ProbeIndex(nCrit))
    /\ loc.omgPrev[nCrit + 1] = At(omg, ProbeIndex(nCrit))
    /\ loc.psiPrev[nCrit + 1] = At(psi, ProbeIndex(nCrit))
    /\ build.ddc => loc.xiPrev[nCrit + 1] = At(xi, ProbeIndex(nCrit))

-----------------------------------------------------------------------------
(* Properties of the nonlinear kernel                                      *)

\* the pairs the three loops of mode n are to visit, as << n, loop, m, o >>
TriadPairs ==
  LET Modes == 1 .. nN - 1
  IN { << q[1], 1, q[2], q[1] - q[2] >> : q \in { r \in Modes \X Modes : r[2] <= r[1] - 1 } }
     \cup { << q[1], 2, q[2], q[2] - q[1] >> : q \in { r \in Modes \X Modes : r[2] >= r[1] + 1 } }
     \cup { << q[1], 3, q[2], q[1] + q[2] >> : q \in { r \in Modes \X Modes : r[2] <= nN - r[1] - 1 } }

\* C8: the loops over m visit only pairs with n = m + o, n = m - o, n = o - m in the
\* stated ranges of m, and all of them once the kernel returns; every visited pair has
\* 1 <= m <= N-1 and 1 <= o <= N-1 and no range assertion fails; with N = 1 the kernel
\* modifies no tendency entry.
TriadLoopsExact ==
  par.on =>
    /\ par.visited \subseteq TriadPairs
    /\ \A v \in par.visited : v[3] >= 1 /\ v[3] <= nN - 1 /\ v[4] >= 1 /\ v[4] <= nN - 1
    /\ pc # "aborted"
    /\ pc = "kdone" => par.visited = TriadPairs
    /\ nN = 1 => dTmpdt = par.start.dTmpdt /\ dOmgdt = par.start.dOmgdt

\* the kernel has returned on a grid where each of the three loops ran, and it has
\* changed the tendencies
TriadLoopsWitness ==
  /\ par.on /\ pc = "kdone" /\ nN >= 3
  /\ \A c \in 1 .. 3 : \E v \in par.visited : v[2] = c
  /\ dTmpdt # par.start.dTmpdt /\ dOmgdt # par.start.dOmgdt

\* the elements (n, k) of slot current of the two tendency arrays
OwnElements(n) ==
  { << A, current * NZ + n * nZ + k >> : A \in { "dTmpdt", "dOmgdt" }, k \in 1 .. nZ - 2 }

\* C9: whatever the interleaving, iteration n of the parallel loop writes only the
\* elements (n, k) of slot current of dTmpdt and dOmgdt, no iteration writes an element
\* another iteration reads or writes, the fields are never written, the sequential
\* loop has made all its writes, all to row 0, before the first iteration starts, and
\* the kernel returns the tendencies of the sequential execution.
ParallelRaceFree ==
  par.on =>
    /\ \A n \in 1 .. nN - 1 : par.wr[n] \subseteq OwnElements(n)
    /\ \A n1 \in 1 .. nN - 1 : \A n2 \in 1 .. nN - 1 :
         n1 # n2 => par.wr[n1] \cap (par.rd[n2] \cup par.wr[n2]) = {}
    /\ tmp = par.start.tmp /\ omg = par.start.omg /\ psi = par.start.psi
    /\ par.meanWr \subseteq { << "dTmpdt", current * NZ + k >> : k \in 1 .. nZ - 2 }
    /\ (par.next > 1) => (pc # "mean" /\ ~ (par.mn < nN))
    /\ \A n \in 1 .. nN - 1 : par.meanWr \cap (par.rd[n] \cup par.wr[n]) = {}
    /\ pc = "kdone" =>
         /\ dTmpdt = computeNonLinearDerivatives(par.start).dTmpdt
         /\ dOmgdt = computeNonLinearDerivatives(par.start).dOmgdt

\* two iterations are in flight at once, each between the load and the store of an
\* accumulation, each having written before
ParallelWitness ==
  /\ par.on /\ pc = "par"
  /\ \E n1 \in DOMAIN par.run : \E n2 \in DOMAIN par.run :
       /\ n1 # n2
       /\ par.run[n1].ph = "store" /\ par.run[n2].ph = "store"
       /\ par.wr[n1] # {} /\ par.wr[n2] # {}
       /\ par.meanWr # {}

====
